---- MODULE Spec2Model ----
(***************************************************************************)
(* Model of streamlit_kobo_app.py: the household-pendency reconciliation   *)
(* (baixar_dados_kobo, processar_revisitas, processar_pendencias) and the  *)
(* analyst session of main() that runs it.                                 *)
(*                                                                         *)
(* A table (pandas DataFrame) is a sequence of rows; a row is a function   *)
(* from column names to values.  NA is a missing value (the key is absent  *)
(* from the JSON record: NaN/None after json_normalize); a column exists   *)
(* in a table iff some row carries a value for it.                         *)
(***************************************************************************)
EXTENDS Integers, Sequences, FiniteSets, TLC

VARIABLES
    kobo,                   \* remote server: project -> [master, revisita] submissions
    midia,                  \* remote server: project -> files of the Revisit asset
    envio,                  \* locals of the last "Atualizar Lista no KoBoToolbox" handler
    campos,                 \* project_config["campos"]: project -> field-name mapping
    openpyxl,               \* whether the spreadsheet engine can be imported
    authenticated,          \* st.session_state.authenticated
    user_data,              \* st.session_state.user_data (the logged-in project)
    pendencias_processadas, \* st.session_state.pendencias_processadas
    dados_pendencias,       \* st.session_state.dados_pendencias
    upload_sucesso,         \* st.session_state.upload_sucesso
    history,                \* processing_history.json: sequence of entries
    pc,                     \* position of the "Atualizar Pendências" handler
    url,                    \* baixar_dados_kobo: page cursor of the next request
    resultados,             \* baixar_dados_kobo: records received so far
    requests,               \* requests issued by the current fetch: page -> count
    df_master,              \* processar_pendencias: the fetched Master table
    df_revisitas,           \* processar_pendencias: the fetched Revisit table
    run                     \* locals of the last processar_pendencias call

vars == <<kobo, midia, envio, campos, openpyxl, authenticated, user_data, pendencias_processadas,
          dados_pendencias, upload_sucesso, history, pc, url, resultados,
          requests, df_master, df_revisitas, run>>

----------------------------------------------------------------------------
(* Bounds of the model *)

\* submissions on the server of one project (Master and Revisit together)
MaxRows == 3
\* Master submissions of one project
MaxMaster == 2
\* Revisit submissions of one project
MaxRevisit == 2
\* distinct submission instants
MaxTime == 2
\* records the server returns per page (PAGE_SIZE, 10000 in the source, scaled)
PageRows == 1
\* entries kept per project in the history (100 in the source, scaled)
MaxHistory == 2
\* files the Revisit asset of a project holds at most
MaxFiles == 2

----------------------------------------------------------------------------
(* Values *)

NA == "NA"
None == "None"

STATUS_FINALIZADOS == {"01", "04", "05"}

Projects == {"P1", "P2"}
Households == {"H1", "H2"}

COL_ID == "_id"
COL_TIME == "_submission_time"
COL_HID == "household_id"
COL_HID_INFO == "info_gerais/household_id"
COL_STATUS == "info_gerais/status"
COL_TENT == "tentativa_n"
COL_TIPO == "info_gerais/tipo_logradouro"
COL_END == "info_gerais/endereco_name"
COL_NUM == "info_gerais/numero"
COL_MOD == "info_gerais/modificador"
COL_COMP == "info_gerais/complemento"

Columns == {COL_ID, COL_TIME, COL_HID, COL_HID_INFO, COL_STATUS, COL_TENT,
            COL_TIPO, COL_END, COL_NUM, COL_MOD, COL_COMP}

\* campos.get(key, default); a key the mapping does not hold is None
CamposGet(c, key, default) == IF c[key] = None THEN default ELSE c[key]

\* project_config.get("campos", {}) of a project configured with no mapping
CamposDefault == [household_id |-> None, status_master |-> None,
                  status_revisita |-> None, tentativa_n |-> None,
                  tipo_logradouro |-> None, endereco |-> None, numero |-> None,
                  modificador |-> None, complemento |-> None]

\* the address part of the mapping the administration panel writes for a new project
CamposEndereco == [CamposDefault EXCEPT !.tipo_logradouro = COL_TIPO,
                                        !.endereco = COL_END,
                                        !.numero = COL_NUM,
                                        !.modificador = COL_MOD,
                                        !.complemento = COL_COMP]

\* `col in df.columns`
HasColumn(df, col) ==
    col \in Columns /\ \E i \in 1..Len(df) : df[i][col] # NA

\* df[mask]: the rows of df at the positions in I, in df's order
RECURSIVE PickIdx(_, _, _)
PickIdx(df, I, i) ==
    IF i > Len(df) THEN <<>>
    ELSE (IF i \in I THEN <<df[i]>> ELSE <<>>) \o PickIdx(df, I, i + 1)

----------------------------------------------------------------------------
(* Timestamps *)

\* pd.NaT; a parsed timestamp is the number (>= 1) of its instant
NaT == 0

\* the _submission_time strings of the server, in the order of their instants
TimeStrings == <<"2024-01-01T10:00:00", "2024-01-02T10:00:00",
                 "2024-01-03T10:00:00", "2024-01-04T10:00:00">>

RawTimes == {TimeStrings[t] : t \in 1..MaxTime}

\* a _submission_time that is present and is not a date
BadTime == "sem data"

\* whether dtparser.parse(s) returns (it raises ParserError otherwise)
Parseable(s) == \E t \in 1..Len(TimeStrings) : TimeStrings[t] = s

\* whether df["_submission_time"].apply(lambda s: dtparser.parse(s)... ) raises
ParseRaises(df) ==
    \E i \in 1..Len(df) : df[i][COL_TIME] # NA /\ ~Parseable(df[i][COL_TIME])

\* dtparser.parse(s).astimezone(timezone.utc) if pd.notna(s) else pd.NaT
ParseTime(s) ==
    IF s = NA THEN NaT
    ELSE CHOOSE t \in 1..Len(TimeStrings) : TimeStrings[t] = s

\* Series.max() of datetimes: NaT is skipped, NaT when nothing is left
MaxTimeOf(S) ==
    LET T == S \ {NaT}
    IN  IF T = {} THEN NaT ELSE CHOOSE t \in T : \A u \in T : u <= t

FormattedTimes == <<"2024-01-01 10:00:00", "2024-01-02 10:00:00",
                    "2024-01-03 10:00:00", "2024-01-04 10:00:00">>

\* .dt.strftime("%Y-%m-%d %H:%M:%S"): NaT gives a missing value
StrfTime(t) == IF t = NaT THEN NA ELSE FormattedTimes[t]

----------------------------------------------------------------------------
(* processar_revisitas *)

\* .astype(str): a missing value becomes the string "nan"
AsStr(v) == IF v = NA THEN "nan" ELSE v

\* .str.lower(): the status codes are digit strings, which have no upper case
StrLower(s) == IF s = "NAN" THEN "nan" ELSE s

\* df_revisitas["_finalizado"] of one row
Finalizado(row, campo_status) ==
    StrLower(AsStr(row[campo_status])) \in STATUS_FINALIZADOS

\* the helper columns processar_revisitas writes into the table it is given
COL_DT == "_submission_dt"
COL_FIN == "_finalizado"

\* df[col] = vals: the column is added, or overwritten when the table has it
ComColuna(df, col, vals) ==
    [i \in 1..Len(df) |->
        [k \in DOMAIN df[i] \cup {col} |-> IF k = col THEN vals[i] ELSE df[i][k]]]

\* df_revisitas["_submission_dt"] = ...: NaT where there is no submission time
SubmissionDt(df) ==
    ComColuna(df, COL_DT, [i \in 1..Len(df) |-> ParseTime(df[i][COL_TIME])])

\* Anotar writing the flag over the status column as well
AnotarSobreStatus(df, campo_status) ==
    LET fin == [i \in 1..Len(df) |-> Finalizado(df[i], campo_status)]
    IN  ComColuna(ComColuna(SubmissionDt(df), COL_FIN, fin), campo_status,
                  [i \in 1..Len(df) |-> IF fin[i] THEN "True" ELSE "False"])

\* the table after both helper columns are assigned
Anotar(df, campo_status) ==
    ComColuna(SubmissionDt(df), COL_FIN,
              [i \in 1..Len(df) |-> Finalizado(df[i], campo_status)])

\* order of the group keys of groupby(..., dropna=False): sorted, NaN last
GroupOrder == <<"H1", "H2", NA>>

\* the answers to tentativa_n, in increasing order
TentValues == <<"1", "2">>

\* max of a column of attempt counters
MaxTentOf(S) ==
    LET I == {k \in 1..Len(TentValues) : TentValues[k] \in S}
    IN  IF I = {} THEN NA ELSE TentValues[CHOOSE k \in I : \A j \in I : j <= k]

\* AggRow taking the status of the group's last submission instead of the OR
AggRowUltimo(df, campo_tentativa, h) ==
    LET G == {i \in 1..Len(df) : df[i][COL_HID] = h}
        u == CHOOSE i \in G : \A j \in G : j <= i
    IN  [household_id    |-> h,
         finalizado      |-> df[u][COL_FIN],
         ultima_revisita |-> MaxTimeOf({df[i][COL_DT] : i \in G}),
         tentativas      |-> IF HasColumn(df, campo_tentativa)
                             THEN MaxTentOf({df[i][campo_tentativa] : i \in G})
                             ELSE NA]

\* AggRow taking the time of the group's last submission instead of the max
AggRowUltimaLinha(df, campo_tentativa, h) ==
    LET G == {i \in 1..Len(df) : df[i][COL_HID] = h}
        u == CHOOSE i \in G : \A j \in G : j <= i
    IN  [household_id    |-> h,
         finalizado      |-> \E i \in G : df[i][COL_FIN],
         ultima_revisita |-> df[u][COL_DT],
         tentativas      |-> IF HasColumn(df, campo_tentativa)
                             THEN MaxTentOf({df[i][campo_tentativa] : i \in G})
                             ELSE NA]

\* the aggregate of one group of the annotated table; the tentativas column
\* exists only when the Revisit table has the attempt-counter field
AggRow(df, campo_tentativa, h) ==
    LET G == {i \in 1..Len(df) : df[i][COL_HID] = h}
    IN  [household_id    |-> h,
         finalizado      |-> \E i \in G : df[i][COL_FIN],
         ultima_revisita |-> MaxTimeOf({df[i][COL_DT] : i \in G}),
         tentativas      |-> IF HasColumn(df, campo_tentativa)
                             THEN MaxTentOf({df[i][campo_tentativa] : i \in G})
                             ELSE NA]

RECURSIVE GroupAgg(_, _, _)
GroupAgg(df, campo_tentativa, k) ==
    IF k > Len(GroupOrder) THEN <<>>
    ELSE (IF \E i \in 1..Len(df) : df[i][COL_HID] = GroupOrder[k]
          THEN <<AggRow(df, campo_tentativa, GroupOrder[k])>>
          ELSE <<>>) \o GroupAgg(df, campo_tentativa, k + 1)

NoError == [kind |-> None, msg |-> None, field |-> None]

\* df[col] of a column the table does not have
KeyError(col) == [kind |-> "KeyError", msg |-> None, field |-> col]

\* dtparser.parse of a string that is not a date, raised out of Series.apply
\* before pd.to_datetime(..., errors="coerce") is called
ParserError(form) == [kind |-> "ParserError", msg |-> None, field |-> form]

\* the exception a call raises: no table is returned
Raised(e) == [ok |-> FALSE, df |-> <<>>, colunas |-> {}, error |-> e]

\* EmptyAgregado as pd.DataFrame(): a table without columns
EmptyNoColumns == [ok |-> TRUE, df |-> <<>>, colunas |-> {}, error |-> NoError]

\* the table returned for an empty Revisit table: no rows, four columns
EmptyAgregado ==
    [ok |-> TRUE, df |-> <<>>,
     colunas |-> {"household_id", "finalizado", "ultima_revisita", "tentativas"},
     error |-> NoError]

\* the columns of df_agregado after reset_index() and rename()
ColunasAgregado(df, campo_tentativa) ==
    {"household_id", "finalizado", "ultima_revisita"}
        \cup (IF HasColumn(df, campo_tentativa) THEN {"tentativas"} ELSE {})

\* the aggregated table (ok) or the exception the call raises
processar_revisitas(df, c) ==
    LET campo_status == CamposGet(c, "status_revisita", COL_STATUS)
        campo_tentativa == CamposGet(c, "tentativa_n", COL_TENT)
    IN  IF Len(df) = 0 THEN EmptyAgregado
        ELSE IF ParseRaises(df) THEN Raised(ParserError("revisita"))
        ELSE IF ~HasColumn(df, campo_status) THEN Raised(KeyError(campo_status))
        ELSE IF ~HasColumn(df, COL_HID) THEN Raised(KeyError(COL_HID))
        ELSE [ok |-> TRUE,
              df |-> GroupAgg(Anotar(df, campo_status), campo_tentativa, 1),
              colunas |-> ColunasAgregado(df, campo_tentativa),
              error |-> NoError]

\* the table the caller passed, as the call leaves it: the helper columns are
\* assigned in place, each one only if the call got as far as its assignment
TabelaApos(df, c) ==
    LET campo_status == CamposGet(c, "status_revisita", COL_STATUS)
    IN  IF Len(df) = 0 \/ ParseRaises(df) THEN df
        ELSE IF ~HasColumn(df, campo_status) THEN SubmissionDt(df)
        ELSE Anotar(df, campo_status)

----------------------------------------------------------------------------
(* processar_pendencias *)

Perms(n) == {p \in [1..n -> 1..n] : \A i, j \in 1..n : i # j => p[i] # p[j]}

\* df.sort_values("_submission_dt"): the orders the sort can produce.  NaT rows
\* go last (na_position="last") in their original order; rows with equal
\* timestamps come out in either order (the default quicksort is not stable).
\* The sort is not reached when the parse of a timestamp raises.
SortValues(df) ==
    LET dt(i) == ParseTime(df[i][COL_TIME])
        Sorted(p) ==
            \A i, j \in 1..Len(df) : i < j =>
                IF dt(p[i]) = NaT THEN dt(p[j]) = NaT /\ p[i] < p[j]
                ELSE dt(p[j]) = NaT \/ dt(p[i]) <= dt(p[j])
    IN  IF ParseRaises(df) THEN {df}
        ELSE {[i \in 1..Len(df) |-> df[p[i]]] :
                 p \in {q \in Perms(Len(df)) : Sorted(q)}}

\* DropDuplicatesLast dropping nothing
DropDuplicatesNone(df, col) == df

\* df.drop_duplicates(subset=[col], keep="last"); missing keys equal each other
DropDuplicatesLast(df, col) ==
    PickIdx(df, {i \in 1..Len(df) :
                    ~\E j \in 1..Len(df) : j > i /\ df[j][col] = df[i][col]}, 1)

\* (df_master[campo_status_master] == "01").sum()
ContaPrimeira(df, col) == Cardinality({i \in 1..Len(df) : df[i][col] = "01"})

\* df_master[df_master[campo_status_master] != "01"]
RemovePrimeira(df, col) == PickIdx(df, {i \in 1..Len(df) : df[i][col] # "01"}, 1)

\* the rows of df_base.merge(df_agregado, how="left", ...) for one left row
RECURSIVE MergeRow(_, _, _, _)
MergeRow(row, campo_hid, agg, k) ==
    IF k > Len(agg) THEN <<>>
    ELSE (IF agg[k].household_id = row[campo_hid]
          THEN <<[key             |-> row[campo_hid],
                  index_sel       |-> row[COL_ID],
                  base            |-> row,
                  merge           |-> "both",
                  finalizado      |-> agg[k].finalizado,
                  ultima_revisita |-> agg[k].ultima_revisita,
                  tentativas      |-> agg[k].tentativas]>>
          ELSE <<>>) \o MergeRow(row, campo_hid, agg, k + 1)

\* MergeLeft as an inner join
RECURSIVE MergeInner(_, _, _, _)
MergeInner(df, campo_hid, agg, i) ==
    IF i > Len(df) THEN <<>>
    ELSE MergeRow(df[i], campo_hid, agg, 1) \o MergeInner(df, campo_hid, agg, i + 1)

RECURSIVE MergeLeft(_, _, _, _)
MergeLeft(df, campo_hid, agg, i) ==
    IF i > Len(df) THEN <<>>
    ELSE LET m == MergeRow(df[i], campo_hid, agg, 1)
         IN  (IF m = <<>>
              THEN <<[key             |-> df[i][campo_hid],
                      index_sel       |-> df[i][COL_ID],
                      base            |-> df[i],
                      merge           |-> "left_only",
                      finalizado      |-> FALSE,
                      ultima_revisita |-> NaT,
                      tentativas      |-> NA]>>
              ELSE m) \o MergeLeft(df, campo_hid, agg, i + 1)

\* df_consolidado["finalizado"].fillna(False).astype(bool) and status_consolidado
Consolidar(r) ==
    LET fin == IF r.merge = "left_only" THEN FALSE ELSE r.finalizado
    IN  [key                |-> r.key,
         index_sel          |-> r.index_sel,
         base               |-> r.base,
         finalizado         |-> fin,
         ultima_revisita    |-> r.ultima_revisita,
         tentativas         |-> r.tentativas,
         status_consolidado |-> IF fin THEN "Concluído" ELSE "Aberto"]

\* str(valor).strip() of the address answers of the model
Strip(v) == IF v = " " THEN "" ELSE v

\* CAMPOS_LABEL with the street type first
CAMPOS_LABEL_TIPO ==
    <<"tipo_logradouro", "endereco", "numero", "modificador", "complemento">>

\* the mapping keys criar_label_endereco goes through, in its order
CAMPOS_LABEL == <<"endereco", "numero", "modificador", "complemento">>

\* partes: the values appended by the loop from its k-th pass on.  row is the
\* Master part of the pending row; a field the mapping does not name is ""
RECURSIVE Partes(_, _, _)
Partes(row, c, k) ==
    IF k > Len(CAMPOS_LABEL) THEN <<>>
    ELSE LET campo == CamposGet(c, CAMPOS_LABEL[k], "")
         IN  (IF /\ campo # ""
                 /\ campo \in DOMAIN row
                 /\ row[campo] # NA
                 /\ Strip(row[campo]) # ""
              THEN <<row[campo]>> ELSE <<>>) \o Partes(row, c, k + 1)

\* ", ".join(partes) as the sequence of its pieces
RECURSIVE Join(_)
Join(partes) ==
    IF Len(partes) <= 1 THEN partes
    ELSE <<partes[1], ", ">> \o Join(Tail(partes))

\* the separator of the f-string: an em dash (U+2014) between two spaces
TRAVESSAO == " -- "

\* the label as the sequence of the pieces of the f-string
criar_label_endereco(r, c) ==
    LET idx == ToString(r.index_sel)
        endereco_completo == Join(Partes(r.base, c, 1))
    IN  IF endereco_completo # <<>> THEN <<idx, TRAVESSAO>> \o endereco_completo
        ELSE <<idx>>

\* one row of df_pendencias: name, label and the formatted ultima_revisita added
Pendencia(r, c) ==
    [key                |-> r.key,
     base               |-> r.base,
     name               |-> ToString(r.index_sel),
     label              |-> criar_label_endereco(r, c),
     finalizado         |-> r.finalizado,
     ultima_revisita    |-> StrfTime(r.ultima_revisita),
     tentativas         |-> r.tentativas,
     status_consolidado |-> r.status_consolidado]

\* Pendencias without the filter on status_consolidado
PendenciasTodas(df, c) == [i \in 1..Len(df) |-> Pendencia(df[i], c)]

\* df_consolidado[df_consolidado["status_consolidado"] == "Aberto"] with its columns
Pendencias(df, c) ==
    LET abertos == PickIdx(df, {i \in 1..Len(df) :
                                   df[i].status_consolidado = "Aberto"}, 1)
    IN  [i \in 1..Len(abertos) |-> Pendencia(abertos[i], c)]

NoStats == [total_master |-> 0, primeira_completa |-> 0, abertos |-> 0,
            concluidos_revisita |-> 0, total_revisitas |-> 0]

NoFile == [formato |-> None, linhas |-> <<>>]

\* the locals of a call that has assigned nothing yet
NoRun == [ok |-> FALSE, error |-> NoError, etapas |-> <<>>,
          df_revisitas_agregado |-> <<>>, colunas_agregado |-> {}, ordenado |-> <<>>, deduplicado |-> <<>>,
          df_master |-> <<>>, df_consolidado |-> <<>>, df_pendencias |-> <<>>,
          estatisticas |-> NoStats, arquivo_excel |-> NoFile, arquivo_csv |-> NoFile]

\* raise RuntimeError(f"Campo '{campo_household_id}' não encontrado no formulário Master")
CampoNaoEncontrado(campo) ==
    [kind |-> "RuntimeError", msg |-> "Campo não encontrado no formulário Master",
     field |-> campo]

\* raise RuntimeError(f"Erro ao baixar dados: {str(e)}") while downloading a form
ErroAoBaixar(form) ==
    [kind |-> "RuntimeError", msg |-> "Erro ao baixar dados", field |-> form]

\* ValidarEAgregar with processar_revisitas called before the validation
AgregarEValidar(dfM, dfR, c) ==
    LET campo_household_id == CamposGet(c, "household_id", COL_HID)
        rev == processar_revisitas(dfR, c)
    IN  IF rev.error # NoError
        THEN [etapas |-> <<"processar_revisitas">>, df |-> <<>>, colunas |-> {},
              error |-> rev.error]
        ELSE IF ~HasColumn(dfM, campo_household_id)
        THEN [etapas |-> <<"processar_revisitas", "validar">>, df |-> <<>>,
              colunas |-> {}, error |-> CampoNaoEncontrado(campo_household_id)]
        ELSE [etapas |-> <<"processar_revisitas", "validar">>, df |-> rev.df,
              colunas |-> rev.colunas, error |-> NoError]

\* steps 2 and 3: the field validation, then processar_revisitas; the steps
\* entered and the exception raised, if any
ValidarEAgregar(dfM, dfR, c) ==
    LET campo_household_id == CamposGet(c, "household_id", COL_HID)
        rev == processar_revisitas(dfR, c)
    IN  IF ~HasColumn(dfM, campo_household_id)
        THEN [etapas |-> <<"validar">>, df |-> <<>>, colunas |-> {},
              error |-> CampoNaoEncontrado(campo_household_id)]
        ELSE [etapas |-> <<"validar", "processar_revisitas">>, df |-> rev.df,
              colunas |-> rev.colunas, error |-> rev.error]

\* processar_pendencias after the two downloads: dfM and dfR are the fetched
\* tables, ordenado the outcome of the sort, excel whether openpyxl imports.
\* The result holds the locals assigned by the call; ok = FALSE means it raised.
\* Estatisticas counting only the Master rows kept in the working set
EstatisticasSemPrimeira(master, primeira, pendencias, concluidos, dfR) ==
    [total_master        |-> Len(master),
     primeira_completa   |-> primeira,
     abertos             |-> Len(pendencias),
     concluidos_revisita |-> concluidos,
     total_revisitas     |-> Len(dfR)]

\* "7. Preparar estatísticas": master is the deduplicated Master table without
\* its "01" rows, dfR the Revisit table as fetched
Estatisticas(master, primeira, pendencias, concluidos, dfR) ==
    [total_master        |-> Len(master) + primeira,
     primeira_completa   |-> primeira,
     abertos             |-> Len(pendencias),
     concluidos_revisita |-> concluidos,
     total_revisitas     |-> Len(dfR)]

processar_pendencias(dfM, dfR, c, ordenado, excel) ==
    LET campo_household_id == CamposGet(c, "household_id", COL_HID)
        rev == ValidarEAgregar(dfM, dfR, c)
        deduplicado == DropDuplicatesLast(ordenado, campo_household_id)
        campo_status_master == CamposGet(c, "status_master", COL_STATUS)
        tem_status == HasColumn(dfM, campo_status_master)
        primeira == IF tem_status
                    THEN ContaPrimeira(deduplicado, campo_status_master) ELSE 0
        master == IF tem_status
                  THEN RemovePrimeira(deduplicado, campo_status_master)
                  ELSE deduplicado
        merged == MergeLeft(master, campo_household_id, rev.df, 1)
        consolidado == [i \in 1..Len(merged) |-> Consolidar(merged[i])]
        pendencias == Pendencias(consolidado, c)
        concluidos == Cardinality({i \in 1..Len(consolidado) :
                          consolidado[i].status_consolidado = "Concluído"})
    IN  IF rev.error # NoError
        THEN [NoRun EXCEPT !.error = rev.error, !.etapas = rev.etapas]
        ELSE IF ParseRaises(dfM)
        THEN [NoRun EXCEPT !.error = ParserError("master"),
                           !.etapas = rev.etapas \o <<"deduplicar">>,
                           !.df_revisitas_agregado = rev.df,
                           !.colunas_agregado = rev.colunas]
        ELSE IF "household_id" \notin rev.colunas \/ "finalizado" \notin rev.colunas
        THEN [NoRun EXCEPT !.error = KeyError(IF "household_id" \notin rev.colunas
                                              THEN "household_id" ELSE "finalizado"),
                           !.etapas = rev.etapas \o <<"deduplicar", "merge">>,
                           !.df_revisitas_agregado = rev.df,
                           !.colunas_agregado = rev.colunas]
        ELSE [ok |-> TRUE, error |-> NoError,
              etapas |-> rev.etapas \o <<"deduplicar", "merge", "exportar">>,
              df_revisitas_agregado |-> rev.df,
              colunas_agregado |-> rev.colunas,
              ordenado |-> ordenado,
              deduplicado |-> deduplicado,
              df_master |-> master,
              df_consolidado |-> consolidado,
              df_pendencias |-> pendencias,
              estatisticas |->
                  Estatisticas(master, primeira, pendencias, concluidos, dfR),
              arquivo_excel |-> IF excel
                                THEN [formato |-> "xlsx", linhas |-> pendencias]
                                ELSE NoFile,
              arquivo_csv |-> [formato |-> "csv", linhas |-> pendencias]]

----------------------------------------------------------------------------
(* The remote server *)

\* one submission of a form as json_normalize lays it out
Submission(id, hid, t, st, tent) ==
    (COL_ID :> id) @@ (COL_TIME :> t) @@ (COL_HID :> hid) @@
    (COL_HID_INFO :> NA) @@ (COL_STATUS :> st) @@ (COL_TENT :> tent) @@
    (COL_TIPO :> NA) @@ (COL_END :> NA) @@ (COL_NUM :> NA) @@
    (COL_MOD :> NA) @@ (COL_COMP :> NA)

\* the server numbers the submissions of a form as they arrive
Numbered(s) ==
    [i \in 1..Len(s) |-> Submission(i, s[i][1], s[i][2], s[i][3], s[i][4])]

\* the numbers of Master and Revisit submissions a server can hold
RowCounts == {k \in (0..MaxMaster) \X (0..MaxRevisit) : k[1] + k[2] <= MaxRows}

\* the Master submissions: tentativa_n is a field of the Revisit form only
MasterChoices ==
    (Households \cup {NA}) \X (RawTimes \cup {NA}) \X {"01", "02", "04", NA} \X {NA}

\* the Revisit submissions of a form whose attempt counter takes the values T;
\* the households are interchangeable, one of them is never revisited
RevisitChoices(T) == {"H1", NA} \X (RawTimes \cup {NA}) \X {"03", "04", NA} \X T

\* a Revisit form has the field tentativa_n in all of its submissions or in none
TentFields == {{NA}, {TentValues[k] : k \in 1..Len(TentValues)}}

SessionMaster == {<<"H1", TimeStrings[1], "02", NA>>, <<"H2", TimeStrings[1], "01", NA>>}
SessionRevisit == {<<"H1", TimeStrings[1], "04", "1">>, <<"H2", NA, NA, NA>>}

EmptyForms == [master |-> <<>>, revisita |-> <<>>]

\* project P1 holds Master rows drawn from M and Revisit rows drawn from R,
\* project P2 holds nothing
ServerInit(M, R) ==
    \E k \in RowCounts :
        \E m \in [1..k[1] -> M], r \in [1..k[2] -> R] :
            kobo = [p \in Projects |->
                       IF p = "P1"
                       THEN [master |-> Numbered(m), revisita |-> Numbered(r)]
                       ELSE EmptyForms]

\* the form a position of the handler downloads
FormOf(p) == IF p = "master" THEN "master" ELSE "revisita"

Min(a, b) == IF a <= b THEN a ELSE b

\* the "results" of page n of a form
PageResults(form, n) == SubSeq(form, (n - 1) * PageRows + 1, Min(n * PageRows, Len(form)))

\* PageHasNext of a server whose responses never carry a cursor
PageHasNextNever(form, n) == FALSE

\* whether page n of a form carries a "next" cursor
PageHasNext(form, n) == n * PageRows < Len(form)

Pages == 1..(MaxRows + 1)

\* the name of the payload ("pendencias.csv" in the upload handler)
NOME_ARQUIVO == "pendencias.csv"

\* str(...).strip().lower() of the file names of the model
NomeLower(n) == IF n = "Pendencias.CSV " THEN "pendencias.csv" ELSE n

\* a file of an asset as /files.json lists it
Arquivo(tipo, nome, origem) == [file_type |-> tipo, filename |-> nome, origem |-> origem]

\* the files an asset may hold before the session starts
ArquivosIniciais ==
    {<<>>,
     <<Arquivo("form_media", "pendencias.csv", None)>>,
     <<Arquivo("form_media", "Pendencias.CSV ", None)>>,
     <<Arquivo("map_layer", "pendencias.csv", None)>>,
     <<Arquivo("form_media", "mapa.csv", None)>>}

\* gerenciar_midia_kobo: the positions of the listed files it asks to delete
Iguais(arquivos, nome_arquivo) ==
    {i \in 1..Len(arquivos) :
        /\ arquivos[i].file_type = "form_media"
        /\ NomeLower(arquivos[i].filename) = NomeLower(nome_arquivo)}

NoEnvio == [project |-> None, listagem |-> None, post |-> None, iguais_no_post |-> 0]

NoRequests == [f \in {"master", "revisita"} |-> [n \in Pages |-> 0]]

----------------------------------------------------------------------------
(* The session: main() *)

NoDados == [df_pendencias |-> <<>>, stats |-> NoStats, arquivo_excel |-> NoFile,
            arquivo_csv |-> NoFile, project |-> None]

\* Downloads offering the files only when the spreadsheet exists
DownloadsSemFallback(dados) ==
    IF dados.df_pendencias = <<>> \/ dados.arquivo_excel = NoFile THEN <<>>
    ELSE <<[data |-> dados.arquivo_excel, label |-> "Baixar Excel", type |-> "primary"],
           [data |-> dados.arquivo_csv, label |-> "Baixar CSV", type |-> "secondary"]>>

\* the download buttons of the results section, in the order they are shown
Downloads(dados) ==
    IF dados.df_pendencias = <<>> THEN <<>>
    ELSE (IF dados.arquivo_excel # NoFile
          THEN <<[data |-> dados.arquivo_excel, label |-> "Baixar Excel",
                  type |-> "primary"]>>
          ELSE <<>>)
         \o <<[data  |-> dados.arquivo_csv,
               label |-> IF dados.arquivo_excel # NoFile
                         THEN "Baixar CSV" ELSE "Baixar Relatório (CSV)",
               type  |-> IF dados.arquivo_excel # NoFile
                         THEN "secondary" ELSE "primary"]>>

InitSession ==
    /\ envio = NoEnvio
    /\ authenticated = FALSE
    /\ user_data = None
    /\ pendencias_processadas = FALSE
    /\ dados_pendencias = NoDados
    /\ upload_sucesso = FALSE
    /\ history = [p \in Projects |-> <<>>]
    /\ pc = "idle"
    /\ url = 1
    /\ resultados = <<>>
    /\ requests = NoRequests
    /\ df_master = <<>>
    /\ df_revisitas = <<>>
    /\ run = NoRun

Init ==
    /\ ServerInit(SessionMaster, SessionRevisit)
    /\ midia = [p \in Projects |-> <<>>]
    /\ campos = [p \in Projects |-> CamposDefault]
    /\ openpyxl \in BOOLEAN
    /\ InitSession

\* "Entrar" with the credentials of project p's analyst
Login(p) ==
    /\ pc = "idle"
    /\ ~authenticated
    /\ authenticated' = TRUE
    /\ user_data' = p
    /\ UNCHANGED <<kobo, midia, envio, campos, openpyxl, pendencias_processadas, dados_pendencias,
                   upload_sucesso, history, pc, url, resultados, requests,
                   df_master, df_revisitas, run>>

\* "Sair" of the analyst panel
Logout ==
    /\ pc = "idle"
    /\ authenticated
    /\ authenticated' = FALSE
    /\ user_data' = None
    /\ UNCHANGED <<kobo, midia, envio, campos, openpyxl, pendencias_processadas, dados_pendencias,
                   upload_sucesso, history, pc, url, resultados, requests,
                   df_master, df_revisitas, run>>

\* "Atualizar Pendências" is pressed: processar_pendencias starts the Master download
Atualizar ==
    /\ pc = "idle"
    /\ authenticated
    /\ upload_sucesso' = FALSE
    /\ pc' = "master"
    /\ url' = 1
    /\ resultados' = <<>>
    /\ requests' = NoRequests
    /\ df_master' = <<>>
    /\ df_revisitas' = <<>>
    /\ run' = NoRun
    /\ UNCHANGED <<kobo, midia, envio, campos, openpyxl, authenticated, user_data,
                   pendencias_processadas, dados_pendencias, history>>

\* baixar_dados_kobo: one pass of the loop whose request succeeds
RequestOk ==
    /\ pc \in {"master", "revisitas"}
    /\ LET form == kobo[user_data][FormOf(pc)]
           todos == resultados \o PageResults(form, url)
       IN  /\ requests' = [requests EXCEPT ![FormOf(pc)][url] = @ + 1]
           /\ IF PageHasNext(form, url)
              THEN /\ url' = url + 1
                   /\ resultados' = todos
                   /\ UNCHANGED <<pc, df_master, df_revisitas>>
              ELSE /\ url' = 1
                   /\ resultados' = <<>>
                   /\ IF pc = "master"
                      THEN /\ df_master' = todos
                           /\ pc' = "revisitas"
                           /\ UNCHANGED df_revisitas
                      ELSE /\ df_revisitas' = todos
                           /\ pc' = "processar"
                           /\ UNCHANGED df_master
    /\ UNCHANGED <<kobo, midia, envio, campos, openpyxl, authenticated, user_data,
                   pendencias_processadas, dados_pendencias, upload_sucesso,
                   history, run>>

\* RequestFail asking for the same page again
RequestFailRetry ==
    /\ pc \in {"master", "revisitas"}
    /\ requests' = [requests EXCEPT ![FormOf(pc)][url] = @ + 1]
    /\ UNCHANGED <<kobo, midia, envio, campos, openpyxl, authenticated, user_data,
                   pendencias_processadas, dados_pendencias, upload_sucesso,
                   history, pc, url, resultados, df_master, df_revisitas, run>>

\* RequestFail leaving pendencias_processadas as it was
RequestFailKeepFlag ==
    /\ pc \in {"master", "revisitas"}
    /\ requests' = [requests EXCEPT ![FormOf(pc)][url] = @ + 1]
    /\ run' = [NoRun EXCEPT !.error = ErroAoBaixar(FormOf(pc)),
                            !.etapas = <<"baixar">>]
    /\ pc' = "idle"
    /\ resultados' = <<>>
    /\ url' = 1
    /\ UNCHANGED <<kobo, midia, envio, campos, openpyxl, authenticated, user_data,
                   pendencias_processadas, dados_pendencias, upload_sucesso,
                   history, df_master, df_revisitas>>

\* baixar_dados_kobo: the request fails (HTTP status, timeout, transport error);
\* the RuntimeError reaches the except clause of the button handler
RequestFail ==
    /\ pc \in {"master", "revisitas"}
    /\ requests' = [requests EXCEPT ![FormOf(pc)][url] = @ + 1]
    /\ run' = [NoRun EXCEPT !.error = ErroAoBaixar(FormOf(pc)),
                            !.etapas = <<"baixar">>]
    /\ pendencias_processadas' = FALSE
    /\ pc' = "idle"
    /\ resultados' = <<>>
    /\ url' = 1
    /\ UNCHANGED <<kobo, midia, envio, campos, openpyxl, authenticated, user_data,
                   dados_pendencias, upload_sucesso, history, df_master, df_revisitas>>

\* save_processing_history
SaveHistory(h, project, stats) ==
    LET all == Append(h[project], stats)
    IN  [h EXCEPT ![project] =
            IF Len(all) > MaxHistory
            THEN SubSeq(all, Len(all) - MaxHistory + 1, Len(all)) ELSE all]

\* the rest of processar_pendencias and of the button handler
Processar ==
    /\ pc = "processar"
    /\ \E ordenado \in SortValues(df_master) :
         LET r == processar_pendencias(df_master, df_revisitas, campos[user_data],
                                       ordenado, openpyxl)
         IN  /\ run' = r
             /\ IF r.ok
                THEN /\ pendencias_processadas' = TRUE
                     /\ dados_pendencias' =
                            [df_pendencias |-> r.df_pendencias,
                             stats         |-> r.estatisticas,
                             arquivo_excel |-> r.arquivo_excel,
                             arquivo_csv   |-> r.arquivo_csv,
                             project       |-> user_data]
                     /\ history' = SaveHistory(history, user_data, r.estatisticas)
                ELSE /\ pendencias_processadas' = FALSE
                     /\ UNCHANGED <<dados_pendencias, history>>
    /\ pc' = "idle"
    /\ UNCHANGED <<kobo, midia, envio, campos, openpyxl, authenticated, user_data, upload_sucesso,
                   url, resultados, requests, df_master, df_revisitas>>

\* "Atualizar Lista no KoBoToolbox": gerenciar_midia_kobo, then fazer_upload_midia.
\* listagem is the outcome of the listing request ("ok", "status": a response
\* that is not ok, "erro": the request raises); D the files whose delete
\* request succeeds; falha whether a delete request raises; post the outcome of
\* the upload request.  An exception ends the handler in its except clause.
AtualizarListaNoKobo ==
    /\ pc = "idle"
    /\ authenticated
    /\ pendencias_processadas
    /\ dados_pendencias.project # None
    /\ \E listagem \in {"ok", "status", "erro"}, falha \in BOOLEAN,
          post \in {"ok", "status"} :
         LET arquivos == midia[user_data]
             M == IF listagem = "ok" THEN Iguais(arquivos, NOME_ARQUIVO) ELSE {}
         IN  \E D \in SUBSET M :
               LET restantes == PickIdx(arquivos, (1..Len(arquivos)) \ D, 1)
                   aborta == listagem = "erro" \/ (falha /\ M # {})
                   enviado == ~aborta /\ post = "ok"
                   novo == Arquivo("form_media", NOME_ARQUIVO, dados_pendencias.project)
               IN  /\ enviado => Len(restantes) < MaxFiles
                   /\ midia' = [midia EXCEPT ![user_data] =
                                    IF enviado THEN Append(restantes, novo)
                                    ELSE restantes]
                   /\ upload_sucesso' = IF enviado THEN TRUE ELSE upload_sucesso
                   /\ envio' = [project        |-> user_data,
                                listagem       |-> listagem,
                                post           |-> IF aborta THEN None ELSE post,
                                iguais_no_post |->
                                    IF aborta THEN 0
                                    ELSE Cardinality(Iguais(restantes, NOME_ARQUIVO))]
    /\ UNCHANGED <<kobo, campos, openpyxl, authenticated, user_data,
                   pendencias_processadas, dados_pendencias, history, pc, url,
                   resultados, requests, df_master, df_revisitas, run>>

Next ==
    \/ \E p \in Projects : Login(p)
    \/ Logout
    \/ Atualizar
    \/ RequestOk
    \/ RequestFail
    \/ Processar

Spec == Init /\ [][Next]_vars

----------------------------------------------------------------------------
(* The downloads when every request succeeds *)

FetchMaster == Households \X {TimeStrings[1]} \X {"02"} \X {NA}
FetchRevisit == {"H1"} \X {TimeStrings[1]} \X {"04"} \X {"1"}

\* forms of every length up to MaxRows / MaxRevisit
InitFetch ==
    /\ \E km \in 0..MaxRows, kr \in 0..MaxRevisit :
          \E m \in [1..km -> FetchMaster], r \in [1..kr -> FetchRevisit] :
              kobo = [p \in Projects |->
                         IF p = "P1"
                         THEN [master |-> Numbered(m), revisita |-> Numbered(r)]
                         ELSE EmptyForms]
    /\ midia = [p \in Projects |-> <<>>]
    /\ campos = [p \in Projects |-> CamposDefault]
    /\ openpyxl = TRUE
    /\ InitSession

NextFetch ==
    \/ \E p \in Projects : Login(p)
    \/ Atualizar
    \/ RequestOk
    \/ Processar

\* the loop of baixar_dados_kobo issues its next request whenever it can
SpecFetch == InitFetch /\ [][NextFetch]_vars /\ WF_vars(RequestOk)

----------------------------------------------------------------------------
(* The session with the upload of the pending list *)

\* one household awaiting a revisit; the Revisit asset of project P1 holds
\* any of the initial files
InitMidia ==
    /\ kobo = [p \in Projects |->
                  IF p = "P1"
                  THEN [master   |-> Numbered(<<<<"H1", TimeStrings[1], "02", NA>>>>),
                        revisita |-> <<>>]
                  ELSE EmptyForms]
    /\ midia \in {f \in [Projects -> ArquivosIniciais] : f["P2"] = <<>>}
    /\ campos = [p \in Projects |-> CamposDefault]
    /\ openpyxl = TRUE
    /\ InitSession

NextMidia ==
    \/ \E p \in Projects : Login(p)
    \/ Logout
    \/ Atualizar
    \/ RequestOk
    \/ RequestFail
    \/ Processar
    \/ AtualizarListaNoKobo

SpecMidia == InitMidia /\ [][NextMidia]_vars

----------------------------------------------------------------------------
(* The reconciliation alone: every dataset, downloaded without error *)

InitRecon ==
    /\ \E T \in TentFields : ServerInit(MasterChoices, RevisitChoices(T))
    /\ midia = [p \in Projects |-> <<>>]
    /\ envio = NoEnvio
    /\ df_master = kobo["P1"].master
    /\ df_revisitas = kobo["P1"].revisita
    /\ campos = [p \in Projects |-> CamposDefault]
    /\ openpyxl = TRUE
    /\ authenticated = TRUE
    /\ user_data = "P1"
    /\ pendencias_processadas = FALSE
    /\ dados_pendencias = NoDados
    /\ upload_sucesso = FALSE
    /\ history = [p \in Projects |-> <<>>]
    /\ pc = "processar"
    /\ url = 1
    /\ resultados = <<>>
    /\ requests = NoRequests
    /\ run = NoRun

NextRecon == Processar

SpecRecon == InitRecon /\ [][NextRecon]_vars

----------------------------------------------------------------------------
(* The reconciliation of datasets whose timestamps may not be dates *)

\* Master and Revisit submissions with a date, no timestamp, or a timestamp
\* that is not a date
ParseMaster ==
    Households \X (RawTimes \cup {NA, BadTime}) \X {"02"} \X {NA}
ParseRevisit ==
    {"H1"} \X (RawTimes \cup {NA, BadTime}) \X {"03", "04"} \X {"1"}

InitParse ==
    /\ ServerInit(ParseMaster, ParseRevisit)
    /\ midia = [p \in Projects |-> <<>>]
    /\ envio = NoEnvio
    /\ df_master = kobo["P1"].master
    /\ df_revisitas = kobo["P1"].revisita
    /\ campos = [p \in Projects |-> CamposDefault]
    /\ openpyxl = TRUE
    /\ authenticated = TRUE
    /\ user_data = "P1"
    /\ pendencias_processadas = FALSE
    /\ dados_pendencias = NoDados
    /\ upload_sucesso = FALSE
    /\ history = [p \in Projects |-> <<>>]
    /\ pc = "processar"
    /\ url = 1
    /\ resultados = <<>>
    /\ requests = NoRequests
    /\ run = NoRun

SpecParse == InitParse /\ [][NextRecon]_vars

----------------------------------------------------------------------------
(* The reconciliation of a project whose mapping names the household field *)

\* campos of a project whose household identifier is a question of the group
\* info_gerais
CamposInfo == [CamposDefault EXCEPT !.household_id = COL_HID_INFO]

\* the submissions s with the answers g to info_gerais/household_id
WithInfo(s, g) == [i \in 1..Len(s) |-> [s[i] EXCEPT ![COL_HID_INFO] = g[i]]]

\* Master submissions carry the identifier in the group only; Revisit
\* submissions may carry a top-level household_id as well
CamposMaster == {NA} \X {TimeStrings[1]} \X {"01", "02"} \X {NA}
CamposRevisit == (Households \cup {NA}) \X {TimeStrings[1]} \X {"03", "04"} \X {NA}

InitCampos ==
    /\ \E k \in RowCounts :
          \E m \in [1..k[1] -> CamposMaster], r \in [1..k[2] -> CamposRevisit],
             gm \in [1..k[1] -> Households], gr \in [1..k[2] -> Households \cup {NA}] :
              kobo = [p \in Projects |->
                         IF p = "P1"
                         THEN [master   |-> WithInfo(Numbered(m), gm),
                               revisita |-> WithInfo(Numbered(r), gr)]
                         ELSE EmptyForms]
    /\ midia = [p \in Projects |-> <<>>]
    /\ envio = NoEnvio
    /\ df_master = kobo["P1"].master
    /\ df_revisitas = kobo["P1"].revisita
    /\ campos = [p \in Projects |-> IF p = "P1" THEN CamposInfo ELSE CamposDefault]
    /\ openpyxl = TRUE
    /\ authenticated = TRUE
    /\ user_data = "P1"
    /\ pendencias_processadas = FALSE
    /\ dados_pendencias = NoDados
    /\ upload_sucesso = FALSE
    /\ history = [p \in Projects |-> <<>>]
    /\ pc = "processar"
    /\ url = 1
    /\ resultados = <<>>
    /\ requests = NoRequests
    /\ run = NoRun

SpecCampos == InitCampos /\ [][NextRecon]_vars

----------------------------------------------------------------------------
(* The reconciliation of Master submissions that carry an address *)

\* the answers to tipo_logradouro, endereco_name, numero, modificador and
\* complemento: absent, empty, blank or filled
Enderecos ==
    {NA, "Rua"} \X {NA, "", "Rua A"} \X {NA, " ", "12"} \X {NA, "B"} \X {NA, "ap 1"}

\* a Master submission with the address answers e
ComEndereco(id, e) ==
    [Submission(id, "H1", TimeStrings[1], "02", NA)
        EXCEPT ![COL_TIPO] = e[1], ![COL_END] = e[2], ![COL_NUM] = e[3],
               ![COL_MOD] = e[4], ![COL_COMP] = e[5]]

\* the mappings of the address fields: all named, none named, one missing
LabelCampos == {CamposEndereco, CamposDefault, [CamposEndereco EXCEPT !.numero = None]}

\* one Master submission, numbered 1 or 7 by the server, never revisited
InitLabel ==
    /\ \E id \in {1, 7}, e \in Enderecos :
          kobo = [p \in Projects |->
                     IF p = "P1"
                     THEN [master |-> <<ComEndereco(id, e)>>, revisita |-> <<>>]
                     ELSE EmptyForms]
    /\ \E c \in LabelCampos :
          campos = [p \in Projects |-> IF p = "P1" THEN c ELSE CamposDefault]
    /\ midia = [p \in Projects |-> <<>>]
    /\ envio = NoEnvio
    /\ df_master = kobo["P1"].master
    /\ df_revisitas = kobo["P1"].revisita
    /\ openpyxl = TRUE
    /\ authenticated = TRUE
    /\ user_data = "P1"
    /\ pendencias_processadas = FALSE
    /\ dados_pendencias = NoDados
    /\ upload_sucesso = FALSE
    /\ history = [p \in Projects |-> <<>>]
    /\ pc = "processar"
    /\ url = 1
    /\ resultados = <<>>
    /\ requests = NoRequests
    /\ run = NoRun

SpecLabel == InitLabel /\ [][NextRecon]_vars

----------------------------------------------------------------------------
(* processar_revisitas called twice on one Revisit submission set *)

\* one call of processar_revisitas: the first on the fetched table, the second
\* on the table object the first call was given or on a fresh copy of the
\* same submissions
ChamarRevisitas ==
    /\ pc \in {"primeira", "segunda"}
    /\ \E tabela \in (IF pc = "primeira" THEN {df_revisitas}
                      ELSE {df_revisitas, kobo[user_data].revisita}) :
         LET r == processar_revisitas(tabela, campos[user_data])
         IN  /\ run' = [NoRun EXCEPT !.ok = r.ok, !.error = r.error,
                                     !.df_revisitas_agregado = r.df,
                                     !.colunas_agregado = r.colunas]
             /\ df_revisitas' = TabelaApos(tabela, campos[user_data])
    /\ pc' = IF pc = "primeira" THEN "segunda" ELSE "idle"
    /\ UNCHANGED <<kobo, midia, envio, campos, openpyxl, authenticated, user_data,
                   pendencias_processadas, dados_pendencias, upload_sucesso,
                   history, url, resultados, requests, df_master>>

InitRerun ==
    /\ \E T \in TentFields : ServerInit({}, RevisitChoices(T))
    /\ midia = [p \in Projects |-> <<>>]
    /\ envio = NoEnvio
    /\ df_master = kobo["P1"].master
    /\ df_revisitas = kobo["P1"].revisita
    /\ campos = [p \in Projects |-> CamposDefault]
    /\ openpyxl = TRUE
    /\ authenticated = TRUE
    /\ user_data = "P1"
    /\ pendencias_processadas = FALSE
    /\ dados_pendencias = NoDados
    /\ upload_sucesso = FALSE
    /\ history = [p \in Projects |-> <<>>]
    /\ pc = "primeira"
    /\ url = 1
    /\ resultados = <<>>
    /\ requests = NoRequests
    /\ run = NoRun

NextRerun == ChamarRevisitas

SpecRerun == InitRerun /\ [][NextRerun]_vars

----------------------------------------------------------------------------
(* Properties *)

\* the last call of processar_pendencias returned
Done == pc = "idle" /\ run.ok

\* the configured household-identifier field of the logged-in project
HidCol == CamposGet(campos["P1"], "household_id", COL_HID)

\* positions of the Master / Revisit submissions of household h
MasterOf(h) == {i \in 1..Len(df_master) : df_master[i][HidCol] = h}
RevisitsOf(h) == {i \in 1..Len(df_revisitas) : df_revisitas[i][COL_HID] = h}

MasterKeys == {df_master[i][HidCol] : i \in 1..Len(df_master)}

\* positions of the rows of a table with key h
RowsOf(df, h) == {i \in 1..Len(df) : df[i].key = h}

\* C1: after a successful run no household identifier occurs twice in the
\* consolidated table or in the pending output, and every Master row that
\* survived deduplication and first-visit removal occurs exactly once in the
\* consolidated table.
C1_HouseholdOnce ==
    Done =>
        /\ \A h \in MasterKeys : Cardinality(RowsOf(run.df_consolidado, h)) <= 1
        /\ \A h \in MasterKeys : Cardinality(RowsOf(run.df_pendencias, h)) <= 1
        /\ Len(run.df_consolidado) = Len(run.df_master)
        /\ \A k \in 1..Len(run.df_master) :
               Cardinality({i \in 1..Len(run.df_consolidado) :
                   run.df_consolidado[i].index_sel = run.df_master[k][COL_ID]}) = 1

\* a household submitted twice to Master and revisited, consolidated into one row
C1_Witness ==
    /\ Done
    /\ \E h \in Households :
          /\ Cardinality(MasterOf(h)) = 2
          /\ RevisitsOf(h) # {}
          /\ Cardinality(RowsOf(run.df_consolidado, h)) = 1

\* C2: a consolidated household with at least one revisit submission whose
\* status is terminal is classified "Concluído" and is not in the pending
\* output, whatever its other revisit submissions are.
C2_OrAggregation ==
    Done =>
        \A i \in 1..Len(run.df_consolidado) :
            LET h == run.df_consolidado[i].key
            IN  (\E j \in RevisitsOf(h) :
                     df_revisitas[j][COL_STATUS] \in {"01", "04", "05"})
                => /\ run.df_consolidado[i].status_consolidado = "Concluído"
                   /\ RowsOf(run.df_pendencias, h) = {}

\* a household revisited with a terminal status and, later, a non-terminal one
C2_Witness ==
    /\ Done
    /\ \E h \in Households :
          /\ RowsOf(run.df_consolidado, h) # {}
          /\ \E i, j \in RevisitsOf(h) :
                /\ i < j
                /\ df_revisitas[i][COL_STATUS] = "04"
                /\ df_revisitas[j][COL_STATUS] = "03"
                /\ ParseTime(df_revisitas[i][COL_TIME]) # NaT
                /\ ParseTime(df_revisitas[i][COL_TIME]) < ParseTime(df_revisitas[j][COL_TIME])

\* C3: every surviving Master household without any revisit submission is in
\* the pending output exactly once, classified "Aberto", with no attempt count
\* and no last-revisit time.
C3_NoRevisitPending ==
    Done =>
        \A k \in 1..Len(run.df_master) :
            LET h == run.df_master[k][HidCol]
            IN  RevisitsOf(h) = {} =>
                    /\ Cardinality(RowsOf(run.df_pendencias, h)) = 1
                    /\ \A i \in RowsOf(run.df_pendencias, h) :
                          /\ run.df_pendencias[i].status_consolidado = "Aberto"
                          /\ run.df_pendencias[i].finalizado = FALSE
                          /\ run.df_pendencias[i].tentativas = NA
                          /\ run.df_pendencias[i].ultima_revisita = NA
                          /\ run.df_pendencias[i].name = ToString(run.df_master[k][COL_ID])

\* a never-revisited household next to a revisited one
C3_Witness ==
    /\ Done
    /\ \E h, g \in Households :
          /\ h # g
          /\ MasterOf(h) # {} /\ RevisitsOf(h) = {}
          /\ MasterOf(g) # {} /\ RevisitsOf(g) # {}
          /\ RowsOf(run.df_pendencias, h) # {}
          /\ \E i \in RowsOf(run.df_consolidado, g) :
                 /\ run.df_consolidado[i].tentativas # NA
                 /\ run.df_consolidado[i].ultima_revisita # NaT

\* C4: a household whose surviving Master submission carries a terminal status
\* ("01", "04" or "05") is never in the pending output.
C4_MasterTerminalResolved ==
    Done =>
        \A k \in 1..Len(run.deduplicado) :
            run.deduplicado[k][COL_STATUS] \in STATUS_FINALIZADOS
            => RowsOf(run.df_pendencias, run.deduplicado[k][HidCol]) = {}

\* the parsed submission times of the Master submissions of household h
MasterTimes(h) == {ParseTime(df_master[i][COL_TIME]) : i \in MasterOf(h)}

\* C5: deduplication keeps exactly one Master row per household, the one with
\* the greatest parsed submission time; a submission without a time never
\* displaces one of the same household that has a time.
C5_LastWriteWins ==
    Done =>
        \A h \in MasterKeys :
            LET K == {k \in 1..Len(run.deduplicado) : run.deduplicado[k][HidCol] = h}
            IN  /\ Cardinality(K) = 1
                /\ \A k \in K : ParseTime(run.deduplicado[k][COL_TIME])
                                    = MaxTimeOf(MasterTimes(h))

\* the most recent Master submissions of household h
Recent(h) ==
    {i \in MasterOf(h) : ParseTime(df_master[i][COL_TIME]) = MaxTimeOf(MasterTimes(h))}

\* household h was removed from the working set
Removed(h) == RowsOf(run.df_consolidado, h) = {}

\* C6: a household is counted in primeira_completa and removed from the
\* working set exactly when its most recent Master submission has status "01".
C6_FirstVisitOnMostRecent ==
    Done =>
        /\ \A h \in MasterKeys :
              /\ Removed(h) => \E i \in Recent(h) : df_master[i][COL_STATUS] = "01"
              /\ ~Removed(h) => \E i \in Recent(h) : df_master[i][COL_STATUS] # "01"
        /\ run.estatisticas.primeira_completa
               = Cardinality({h \in MasterKeys : Removed(h)})

\* total_master = abertos + concluidos_revisita + primeira_completa
StatsIdentity(e) ==
    e.total_master = e.abertos + e.concluidos_revisita + e.primeira_completa

\* a deduplicated Master row carries a closed status other than "01"
MasterClosedNot01 ==
    \E k \in 1..Len(run.deduplicado) : run.deduplicado[k][COL_STATUS] \in {"04", "05"}

\* C7 (as amended): the statistics of every successful run satisfy
\* total_master = abertos + concluidos_revisita + primeira_completa, also when
\* the Master dataset holds closed statuses other than "01".
C7_IdentityHolds == Done => StatsIdentity(run.estatisticas)

\* a run over a Master dataset with a status "04", revisited or not
C7_Witness ==
    /\ Done
    /\ MasterClosedNot01
    /\ run.estatisticas.total_master >= 2
    /\ run.estatisticas.primeira_completa >= 1

\* C7 (as stated): a Master dataset holding a closed status other than "01"
\* makes the statistics violate the identity.
C7_IdentityBroken ==
    (Done /\ MasterClosedNot01) => ~StatsIdentity(run.estatisticas)

\* a download of the last run failed
FalhaAoBaixar == pc = "idle" /\ run.error.msg = "Erro ao baixar dados"

\* C8: no page is requested more than once by a download, and a failed request
\* aborts the run: nothing is returned, the form that failed and the forms
\* after it are not assigned, and the records received so far are dropped.
C8_FetchFailureAborts ==
    /\ \A f \in {"master", "revisita"} : \A n \in Pages : requests[f][n] <= 1
    /\ FalhaAoBaixar =>
          /\ ~run.ok
          /\ run.df_pendencias = <<>>
          /\ run.estatisticas = NoStats
          /\ run.arquivo_csv = NoFile
          /\ resultados = <<>>
          /\ df_revisitas = <<>>
          /\ run.error.field = "master" => df_master = <<>>
          /\ ~pendencias_processadas

\* the second page of the Master form fails after the first was received
C8_Witness ==
    /\ FalhaAoBaixar
    /\ run.error.field = "master"
    /\ requests["master"][1] = 1
    /\ requests["master"][2] = 1
    /\ Len(kobo["P1"].master) > PageRows

\* the session shows results (the guard of the results section of main)
Exibe == pendencias_processadas /\ dados_pendencias.project # None

\* the last run failed
FalhaDoRun == pc = "idle" /\ run.error # NoError

\* C9: after a failed run the session shows no pending list, statistics or
\* payload, also when an earlier run had succeeded, and the step that fails
\* appends nothing to the history.
C9_FailedRunExposesNothing ==
    /\ [](FalhaDoRun => ~Exibe)
    /\ [][(pc # "idle" /\ pc' = "idle" /\ run'.error # NoError)
             => (history' = history /\ ~Exibe')]_vars

\* a failed run after a successful one
C9_Witness ==
    /\ FalhaDoRun
    /\ dados_pendencias.project = "P1"
    /\ Len(history["P1"]) = 1
    /\ user_data = "P1"

\* C10: when the Master table lacks the configured household-identifier field,
\* the run fails with the error naming that field, raised by the validation
\* before processar_revisitas and the join, and yields no statistics or export.
C10_SchemaErrorFirst ==
    (pc = "idle" /\ run # NoRun /\ ~FalhaAoBaixar /\ ~HasColumn(df_master, HidCol))
    => /\ ~run.ok
       /\ run.error = CampoNaoEncontrado(HidCol)
       /\ run.etapas = <<"validar">>
       /\ run.df_revisitas_agregado = <<>>
       /\ run.df_consolidado = <<>>
       /\ run.estatisticas = NoStats
       /\ run.arquivo_excel = NoFile
       /\ run.arquivo_csv = NoFile
       /\ ~pendencias_processadas

\* Master rows without the field, and a Revisit table the aggregation rejects
C10_Witness ==
    /\ pc = "idle" /\ run # NoRun
    /\ Len(df_master) > 0
    /\ ~HasColumn(df_master, HidCol)
    /\ Len(df_revisitas) > 0
    /\ ~HasColumn(df_revisitas, COL_STATUS)

\* the configured status and attempt-counter fields of the logged-in project
StatusMasterCol == CamposGet(campos["P1"], "status_master", COL_STATUS)
StatusRevisitaCol == CamposGet(campos["P1"], "status_revisita", COL_STATUS)
TentativaCol == CamposGet(campos["P1"], "tentativa_n", COL_TENT)

\* processar_pendencias was called on downloaded tables and has ended
Terminou == pc = "idle" /\ run # NoRun /\ ~FalhaAoBaixar

\* C11: the absence of an optional field never fails the run.  With the
\* household identifier present in both forms, the run succeeds; without the
\* attempt counter in the Revisit form no household gets an attempt count,
\* without the status in the Master form nothing is removed and
\* primeira_completa = 0, and without the status in the Revisit form no
\* household is resolved.
C11_OptionalFieldAbsent ==
    (/\ Terminou
     /\ HasColumn(df_master, HidCol)
     /\ Len(df_revisitas) > 0 => HasColumn(df_revisitas, COL_HID))
    => /\ run.ok
       /\ ~HasColumn(df_revisitas, TentativaCol) =>
              \A i \in 1..Len(run.df_revisitas_agregado) :
                  run.df_revisitas_agregado[i].tentativas = NA
       /\ ~HasColumn(df_master, StatusMasterCol) =>
              /\ run.estatisticas.primeira_completa = 0
              /\ run.df_master = run.deduplicado
       /\ ~HasColumn(df_revisitas, StatusRevisitaCol) =>
              \A i \in 1..Len(run.df_revisitas_agregado) :
                  ~run.df_revisitas_agregado[i].finalizado

\* the timestamp of a submission as the claim reads it: what is not a date
\* counts as missing
ParseOrNaT(s) == IF Parseable(s) THEN ParseTime(s) ELSE NaT

\* C12: a submission whose timestamp is present but is not a date is treated
\* as one without a timestamp: the run does not fail, the submission still
\* counts in the OR of its household's statuses, and it is left out of the
\* maximum timestamp.
C12_UnparseableAsMissing ==
    (/\ Terminou
     /\ HasColumn(df_master, HidCol)
     /\ Len(df_revisitas) > 0 =>
            HasColumn(df_revisitas, COL_HID) /\ HasColumn(df_revisitas, StatusRevisitaCol))
    => /\ run.ok
       /\ \A h \in Households :
              RevisitsOf(h) # {} =>
                  \E i \in 1..Len(run.df_revisitas_agregado) :
                      LET a == run.df_revisitas_agregado[i]
                      IN  /\ a.household_id = h
                          /\ a.finalizado =
                                 (\E j \in RevisitsOf(h) :
                                      df_revisitas[j][StatusRevisitaCol]
                                          \in STATUS_FINALIZADOS)
                          /\ a.ultima_revisita =
                                 MaxTimeOf({ParseOrNaT(df_revisitas[j][COL_TIME]) :
                                               j \in RevisitsOf(h)})

\* positions of the Revisit submissions whose configured household field is h
RevisitsBy(h) == {j \in 1..Len(df_revisitas) : df_revisitas[j][HidCol] = h}

\* C13: when the mapping names a household field other than "household_id",
\* the revisit submissions are grouped by that field and joined to the Master
\* rows on it: the run succeeds and a consolidated household is resolved
\* exactly when one of the revisit submissions carrying its identifier in the
\* configured field has a terminal status.
C13_ConfiguredHouseholdField ==
    (/\ Terminou
     /\ HidCol # COL_HID
     /\ HasColumn(df_master, HidCol)
     /\ HasColumn(df_revisitas, HidCol)
     /\ HasColumn(df_revisitas, StatusRevisitaCol))
    => /\ run.ok
       /\ \A i \in 1..Len(run.df_consolidado) :
              run.df_consolidado[i].finalizado =
                  (\E j \in RevisitsBy(run.df_consolidado[i].key) :
                       df_revisitas[j][StatusRevisitaCol] \in STATUS_FINALIZADOS)

\* the column `col` of a table, as a sequence
Coluna(df, col) == [i \in 1..Len(df) |-> df[i][col]]

\* the _id of the rows of a table as the strings str() makes of them
Ids(df) == [i \in 1..Len(df) |-> ToString(df[i][COL_ID])]

\* C14: with an empty Revisit table the aggregator returns no rows under the
\* columns household_id, finalizado, ultima_revisita and tentativas, the join
\* succeeds, and the pending output is the deduplicated Master rows whose
\* status is not "01", each classified "Aberto", with concluidos_revisita = 0.
C14_EmptyRevisit ==
    (Terminou /\ Len(df_revisitas) = 0 /\ HasColumn(df_master, HidCol))
    => /\ run.ok
       /\ run.df_revisitas_agregado = <<>>
       /\ run.colunas_agregado =
              {"household_id", "finalizado", "ultima_revisita", "tentativas"}
       /\ Coluna(run.df_pendencias, "name") =
              Ids(PickIdx(run.deduplicado,
                          {k \in 1..Len(run.deduplicado) :
                              run.deduplicado[k][StatusMasterCol] # "01"}, 1))
       /\ \A i \in 1..Len(run.df_pendencias) :
              run.df_pendencias[i].status_consolidado = "Aberto"
       /\ run.estatisticas.concluidos_revisita = 0
       /\ run.estatisticas.abertos = Len(run.df_pendencias)

\* two households in Master, one of them completed on the first visit, and
\* no revisit submission at all
C14_Witness ==
    /\ Done
    /\ Len(df_revisitas) = 0
    /\ Len(run.deduplicado) = 2
    /\ run.estatisticas.primeira_completa = 1
    /\ Len(run.df_pendencias) = 1

\* C15: the upload action deletes every remote form_media file named like the
\* new file before it uploads the new one, also when the listing request or a
\* delete request is not successful: no such file is left when the upload
\* request is sent, and after a successful upload the asset holds exactly one.
C15_MediaReplaced ==
    /\ envio.post # None => envio.iguais_no_post = 0
    /\ envio.post = "ok" =>
           Cardinality(Iguais(midia[envio.project], NOME_ARQUIVO)) = 1

\* the number of pages the server serves for a form (an empty form has one)
NumPages(form) ==
    IF Len(form) = 0 THEN 1 ELSE (Len(form) + PageRows - 1) \div PageRows

\* the download of form f has returned in the current run
Baixado(f) ==
    IF f = "master" THEN pc \in {"revisitas", "processar"} ELSE pc = "processar"

\* what the download of form f returned
Tabela(f) == IF f = "master" THEN df_master ELSE df_revisitas

\* C16: when every request succeeds, a download ends at the first page
\* without a next cursor: it has then requested each page of the form exactly
\* once and no other page, and it returns the records of all pages, each once,
\* in page order.
C16_FollowsCursor ==
    /\ [](\A f \in {"master", "revisita"} :
             /\ \A n \in Pages : requests[f][n] <= 1
             /\ Baixado(f) =>
                    /\ Tabela(f) = kobo[user_data][f]
                    /\ \A n \in Pages :
                           requests[f][n] =
                               IF n <= NumPages(kobo[user_data][f]) THEN 1 ELSE 0)
    /\ (pc = "master") ~> (pc = "revisitas")
    /\ (pc = "revisitas") ~> (pc = "processar")

\* a Master form of three pages and a Revisit form of two, both downloaded
C16_Witness ==
    /\ pc = "processar"
    /\ NumPages(kobo[user_data].master) = 3
    /\ requests["master"][3] = 1
    /\ Len(df_master) = 3
    /\ NumPages(kobo[user_data].revisita) = 2
    /\ Len(df_revisitas) = 2

\* the answer of a Master row to the address component `key` of the mapping
Valor(row, key) ==
    IF campos["P1"][key] = None THEN NA ELSE row[campos["P1"][key]]

\* the value is neither absent, empty nor blank
Preenchido(v) == v \notin {NA, "", " "}

\* the filled answers of a row to the components `keys`, in their order
Componentes(row, keys) ==
    SelectSeq([k \in 1..Len(keys) |-> Valor(row, keys[k])], Preenchido)

\* the index alone, or the index, the dash and the values with ", " between them
LabelDe(idx, vals) ==
    IF vals = <<>> THEN <<idx>>
    ELSE <<idx, TRAVESSAO>> \o
         [i \in 1..(2 * Len(vals) - 1) |->
             IF i % 2 = 1 THEN vals[(i + 1) \div 2] ELSE ", "]

\* every pending row is labelled with the components `keys`
LabelCom(keys) ==
    Done =>
        \A i \in 1..Len(run.df_pendencias) :
            LET r == run.df_pendencias[i]
            IN  r.label = LabelDe(ToString(r.base[COL_ID]), Componentes(r.base, keys))

\* endereco = "Rua A", numero = "12", the others empty, index 7
Exemplo(r) ==
    /\ r.base[COL_ID] = 7
    /\ campos["P1"] = CamposEndereco
    /\ r.base[COL_END] = "Rua A"
    /\ r.base[COL_NUM] = "12"
    /\ r.base[COL_MOD] = NA
    /\ r.base[COL_COMP] = NA

\* the scenario of the claim: that row is labelled "7 -- Rua A, 12"
LabelDoExemplo ==
    Done =>
        \A i \in 1..Len(run.df_pendencias) :
            (Exemplo(run.df_pendencias[i]) /\ run.df_pendencias[i].base[COL_TIPO] = NA)
            => run.df_pendencias[i].label = <<"7", TRAVESSAO, "Rua A", ", ", "12">>

\* C17 (as amended): the label of a pending row is the row index alone when
\* each of street name, number, modifier and complement is empty, blank or not
\* named by the mapping, and otherwise the index, the dash and the filled
\* values of these four components in this order joined with ", "; the street
\* type is not part of the label.
C17_LabelSemTipo ==
    /\ LabelCom(<<"endereco", "numero", "modificador", "complemento">>)
    /\ LabelDoExemplo

\* the row of the scenario with a street type answered as well
C17_Witness ==
    /\ Done
    /\ \E i \in 1..Len(run.df_pendencias) :
          /\ Exemplo(run.df_pendencias[i])
          /\ run.df_pendencias[i].base[COL_TIPO] = "Rua"
          /\ run.df_pendencias[i].label = <<"7", TRAVESSAO, "Rua A", ", ", "12">>

\* C17 (as stated): the components of the label are street type, street
\* name, number, modifier and complement, in this order.
C17_LabelComTipo ==
    /\ LabelCom(<<"tipo_logradouro", "endereco", "numero", "modificador", "complemento">>)
    /\ LabelDoExemplo

\* the parsed submission times of the revisit submissions of household h
RevisitTimes(h) == {ParseTime(df_revisitas[j][COL_TIME]) : j \in RevisitsOf(h)}

\* C18: the aggregated ultima_revisita of a household is the greatest
\* submission time of its revisit submissions (none when no submission has a
\* time), whatever the order of the submissions and whichever of them carries
\* a terminal status; statuses "03" at T1 and "04" at T2 > T1 give a resolved
\* household with ultima_revisita = T2.
C18_LastRevisitIsMax ==
    Done =>
        \A i \in 1..Len(run.df_revisitas_agregado) :
            LET a == run.df_revisitas_agregado[i]
                T == RevisitTimes(a.household_id)
            IN  /\ \A t \in T : t <= a.ultima_revisita
                /\ a.ultima_revisita \in T
                /\ (\E j, k \in RevisitsOf(a.household_id) :
                       /\ df_revisitas[j][COL_STATUS] = "03"
                       /\ df_revisitas[j][COL_TIME] = TimeStrings[1]
                       /\ df_revisitas[k][COL_STATUS] = "04"
                       /\ df_revisitas[k][COL_TIME] = TimeStrings[2])
                   => a.finalizado /\ a.ultima_revisita = 2

\* the terminal submission at T2 fetched before the non-terminal one at T1
C18_Witness ==
    /\ Done
    /\ \E j, k \in RevisitsOf("H1") :
          /\ k < j
          /\ df_revisitas[j][COL_STATUS] = "03"
          /\ df_revisitas[j][COL_TIME] = TimeStrings[1]
          /\ df_revisitas[k][COL_STATUS] = "04"
          /\ df_revisitas[k][COL_TIME] = TimeStrings[2]
    /\ \E i \in 1..Len(run.df_revisitas_agregado) :
          /\ run.df_revisitas_agregado[i].household_id = "H1"
          /\ run.df_revisitas_agregado[i].ultima_revisita = 2

\* the results section of the analyst panel is shown
Resultados == pc = "idle" /\ authenticated /\ pendencias_processadas
                  /\ dados_pendencias.project # None

C20_SecondRunSame ==
    [][pc = "segunda" =>
          /\ run'.ok = run.ok
          /\ run'.error = run.error
          /\ run'.df_revisitas_agregado = run.df_revisitas_agregado
          /\ run'.colunas_agregado = run.colunas_agregado]_vars

\* two calls made, the second on the annotated table, aggregating a household
\* with a finalized revisit and a last-revisit time
C20_Witness ==
    /\ pc = "idle"
    /\ run.ok
    /\ df_revisitas # kobo[user_data].revisita
    /\ \A i \in 1..Len(df_revisitas) : COL_FIN \in DOMAIN df_revisitas[i]
    /\ \E i \in 1..Len(run.df_revisitas_agregado) :
           /\ run.df_revisitas_agregado[i].finalizado
           /\ run.df_revisitas_agregado[i].ultima_revisita # NaT

\* C21: the results a logged-in analyst is shown, and the pending list the
\* analyst can upload or has uploaded, were produced by a run under the
\* project that is logged in: after a logout and a login nothing of the
\* previous login is shown or reaches the new project's Revisit form until a
\* new run succeeds.
C21_ResultsOfLoggedInProject ==
    /\ Resultados => dados_pendencias.project = user_data
    /\ \A p \in Projects :
           \A i \in 1..Len(midia[p]) : midia[p][i].origem \in {None, p}

\* the households of the rows of a table of the run
Chaves(df) == {df[i].key : i \in 1..Len(df)}

\* the Revisit submissions of households that have no Master submission
RevisitasSemMaster ==
    {j \in 1..Len(df_revisitas) : df_revisitas[j][COL_HID] \notin MasterKeys}

\* C22: in the statistics of a successful run total_master is the number of
\* distinct household identifiers of the fetched Master table, which is the
\* number of rows deduplication leaves, "01" rows included; total_revisitas is
\* the number of fetched Revisit submissions; abertos and concluidos_revisita
\* count Master households only, one row each, so the revisits of a household
\* without a Master submission are counted in neither.
C22_Totals ==
    Done =>
        LET e == run.estatisticas
        IN  /\ e.total_master = Cardinality(MasterKeys)
            /\ e.total_master = Len(run.deduplicado)
            /\ e.total_revisitas = Len(df_revisitas)
            /\ Chaves(run.df_consolidado) \subseteq MasterKeys
            /\ e.abertos = Cardinality(Chaves(run.df_pendencias))
            /\ e.abertos + e.concluidos_revisita
                   = Cardinality(Chaves(run.df_consolidado))

\* a household submitted twice to Master, once with "01", and a finalized
\* revisit of a household that Master does not have
C22_Witness ==
    /\ Done
    /\ Len(df_master) = 2
    /\ run.estatisticas.total_master = 1
    /\ run.estatisticas.primeira_completa = 1
    /\ run.estatisticas.total_revisitas = 1
    /\ RevisitasSemMaster # {}
    /\ \E i \in 1..Len(run.df_revisitas_agregado) :
           run.df_revisitas_agregado[i].finalizado

====
